---- MODULE Spec2Model ----
(***************************************************************************)
(* Git-Diff-Exporter: the diff record parser (git_engine.py), the          *)
(* submodule resolver (git_engine.py) and the extraction runs driven by    *)
(* the worker threads of MainWindow (gui_window.py) with the session-wide  *)
(* FileManager (file_manager.py).                                          *)
(*                                                                         *)
(* A text token is a sequence of one-character strings, so that the first  *)
(* character and the trailing digits of a status token can be inspected    *)
(* the way the code inspects them.                                         *)
(***************************************************************************)
EXTENDS Integers, Sequences, FiniteSets, TLC

VARIABLES
    p_records,      \* parser harness: the records the stream was written from
    p_stdout,       \* parser harness: stdout of `git diff --name-status -z`
    p_entries,      \* parser harness: the list get_diff_entries returned
    p_pc,           \* parser harness: "input" | "parsed"
    s_old_ls,       \* resolver harness: outcome of `git ls-tree -r <old_sha>`
    s_new_ls,       \* resolver harness: outcome of `git ls-tree -r <new_sha>`
    s_info,         \* resolver harness: the list get_submodule_info returned
    s_pc,           \* resolver harness: "input" | "resolved"
    c_sha,          \* retriever harness: the sha passed to get_file_content
    c_path,         \* retriever harness: the file_path passed to get_file_content
    c_outcome,      \* retriever harness: how `git show <sha>:<file_path>` ends
    c_result,       \* retriever harness: what get_file_content returned or raised
    c_pc,           \* retriever harness: "input" | "returned"
    repo_path_var,  \* MainWindow.repo_path_var, the repository path field
    old_sha_var,    \* MainWindow.old_sha_var, the Old SHA field
    new_sha_var,    \* MainWindow.new_sha_var, the New SHA field
    git_engine,     \* MainWindow.git_engine: the repository of the engine, or None
    file_manager,   \* MainWindow.file_manager: copied_files and len(failed_files)
    out_dir,        \* the output directory <output_path>/<folder_name>: "absent" | "present"
    run,            \* per worker thread: the position and locals of its run
    progress_queue, \* per worker thread: the items its run has put on progress_queue
    runs_started    \* number of runs started in the session

parseVars == <<p_records, p_stdout, p_entries, p_pc>>

subVars == <<s_old_ls, s_new_ls, s_info, s_pc>>

showVars == <<c_sha, c_path, c_outcome, c_result, c_pc>>

sessionVars == <<repo_path_var, old_sha_var, new_sha_var, git_engine, file_manager, out_dir, run,
                 progress_queue, runs_started>>

vars == <<p_records, p_stdout, p_entries, p_pc, s_old_ls, s_new_ls, s_info, s_pc,
          c_sha, c_path, c_outcome, c_result, c_pc,
          repo_path_var, old_sha_var, new_sha_var, git_engine, file_manager, out_dir,
          run, progress_queue, runs_started>>

----------------------------------------------------------------------------
(* Bounds *)

MaxRecords == 3      \* records per generated status stream
MaxLines == 2        \* rows per generated tree listing
MaxEntries == 2      \* records per status stream a run's diff command writes
MaxThreads == 1      \* worker threads alive at the same time
MaxRuns == 2         \* runs started in one session
MaxCarried == 1      \* a further run is started while the FileManager holds at most
                     \* this many outcomes of earlier runs

----------------------------------------------------------------------------
(* Text helpers *)

SeqsUpTo(S, n) == UNION {[1..k -> S] : k \in 0..n}

Digits == {"0", "1", "2", "3", "4", "5", "6", "7", "8", "9"}

DigitVal(c) ==
    CASE c = "0" -> 0 [] c = "1" -> 1 [] c = "2" -> 2 [] c = "3" -> 3
      [] c = "4" -> 4 [] c = "5" -> 5 [] c = "6" -> 6 [] c = "7" -> 7
      [] c = "8" -> 8 [] c = "9" -> 9

DigitChar(n) ==
    CASE n = 0 -> "0" [] n = 1 -> "1" [] n = 2 -> "2" [] n = 3 -> "3"
      [] n = 4 -> "4" [] n = 5 -> "5" [] n = 6 -> "6" [] n = 7 -> "7"
      [] n = 8 -> "8" [] n = 9 -> "9"

\* a mutant of IntOfDigits: only the last digit counts
IntOfDigitsLastOnly(ds) == IF ds = <<>> THEN 0 ELSE DigitVal(ds[Len(ds)])

\* int(match.group(2)): the decimal value of a digit string
RECURSIVE IntOfDigits(_)
IntOfDigits(ds) ==
    IF ds = <<>> THEN 0
    ELSE 10 * IntOfDigits(SubSeq(ds, 1, Len(ds) - 1)) + DigitVal(ds[Len(ds)])

\* the decimal digits of a similarity score, without leading zeros
RECURSIVE DigitsOfInt(_)
DigitsOfInt(n) ==
    IF n < 10 THEN <<DigitChar(n)>>
    ELSE Append(DigitsOfInt(n \div 10), DigitChar(n % 10))

----------------------------------------------------------------------------
(* git_engine.py: DiffEntry and GitEngine.get_diff_entries *)

DiffEntry(status, old_path, new_path, similarity) ==
    [status |-> status, old_path |-> old_path, new_path |-> new_path,
     similarity |-> similarity]

\* re.match(r'^([RC])(\d+)$', status_line)
MatchRC(status_line) ==
    /\ Len(status_line) >= 2
    /\ status_line[1] \in {"R", "C"}
    /\ \A k \in 2..Len(status_line) : status_line[k] \in Digits

\* content.split('\x00'): stdout is a sequence of NUL-terminated fields, so the
\* split yields the fields followed by one empty string
SplitNul(stdout) == Append(stdout, <<>>)

\* the while loop of get_diff_entries; i is the 1-based position in parts
RECURSIVE ParseParts(_, _, _)
ParseParts(parts, i, entries) ==
    IF i > Len(parts) THEN entries
    ELSE IF parts[i] = <<>> THEN ParseParts(parts, i + 1, entries)
    ELSE IF i + 1 > Len(parts) THEN entries
    ELSE
      LET status_line == parts[i]
          file_path   == parts[i + 1]
          status      == status_line[1]
      IN  IF file_path = <<>> THEN ParseParts(parts, i + 2, entries)
          ELSE IF status \in {"R", "C"} THEN
                 IF MatchRC(status_line) THEN
                   LET similarity == IntOfDigits(SubSeq(status_line, 2, Len(status_line)))
                   IN  IF i + 2 <= Len(parts)
                       THEN ParseParts(parts, i + 3,
                              Append(entries, DiffEntry(status, file_path, parts[i + 2], similarity)))
                       ELSE ParseParts(parts, i + 2,
                              Append(entries, DiffEntry(status, file_path, file_path, similarity)))
                 ELSE ParseParts(parts, i + 2,
                        Append(entries, DiffEntry(status, file_path, file_path, 0)))
          ELSE ParseParts(parts, i + 2,
                 Append(entries, DiffEntry(status, file_path, file_path, 0)))

\* a mutant of the parser: a rename/copy record consumes one path token only
RECURSIVE ParsePartsOnePath(_, _, _)
ParsePartsOnePath(parts, i, entries) ==
    IF i > Len(parts) THEN entries
    ELSE IF parts[i] = <<>> THEN ParsePartsOnePath(parts, i + 1, entries)
    ELSE IF i + 1 > Len(parts) THEN entries
    ELSE
      LET status_line == parts[i]
          file_path   == parts[i + 1]
          status      == status_line[1]
          similarity  == IF MatchRC(status_line)
                         THEN IntOfDigits(SubSeq(status_line, 2, Len(status_line)))
                         ELSE 0
      IN  IF file_path = <<>> THEN ParsePartsOnePath(parts, i + 2, entries)
          ELSE ParsePartsOnePath(parts, i + 2,
                 Append(entries, DiffEntry(status, file_path, file_path, similarity)))

get_diff_entries_one_path(stdout) ==
    IF stdout = <<>> THEN <<>> ELSE ParsePartsOnePath(SplitNul(stdout), 1, <<>>)

\* get_diff_entries applied to the stdout of the diff command
get_diff_entries(stdout) ==
    IF stdout = <<>> THEN <<>> ELSE ParseParts(SplitNul(stdout), 1, <<>>)

----------------------------------------------------------------------------
(* git_engine.py: SubmoduleInfo, _parse_ls_tree_output, get_submodule_info *)

None == "None"

SubmoduleInfo(path, old_sha, new_sha, old_commit, new_commit) ==
    [path |-> path, old_sha |-> old_sha, new_sha |-> new_sha,
     old_commit |-> old_commit, new_commit |-> new_commit]

EmptyDict == [k \in {} |-> None]

\* submodules[path] = sha
DictSet(d, key, value) ==
    [k \in DOMAIN d \cup {key} |-> IF k = key THEN value ELSE d[k]]

\* dict.get(key)
DictGet(d, key) == IF key \in DOMAIN d THEN d[key] ELSE None

\* _parse_ls_tree_output: a row is the list line.split() yields, mode, type, sha and
\* the words of the path; the path is the words from the fourth on, joined
RECURSIVE ParseLsTree(_, _)
ParseLsTree(lines, submodules) ==
    IF lines = <<>> THEN submodules
    ELSE LET parts == Head(lines)
         IN  IF Len(parts) >= 4 /\ parts[2] = "commit"
             THEN ParseLsTree(Tail(lines),
                              DictSet(submodules, SubSeq(parts, 4, Len(parts)), parts[3]))
             ELSE ParseLsTree(Tail(lines), submodules)

parse_ls_tree_output(lines) == ParseLsTree(lines, EmptyDict)

\* the try/except around each listing: a failed command yields {}
ListingDict(ls) == IF ls.ok THEN parse_ls_tree_output(ls.lines) ELSE EmptyDict

\* the sequences that enumerate the set S, each element once
Orderings(S) ==
    {f \in [1..Cardinality(S) -> S] : \A i, j \in DOMAIN f : i # j => f[i] # f[j]}

\* the for loop over all_paths, taken in the order ord
RECURSIVE ChangedSubmodules(_, _, _, _, _)
ChangedSubmodules(ord, old_submodules, new_submodules, old_sha, new_sha) ==
    IF ord = <<>> THEN <<>>
    ELSE LET path       == Head(ord)
             old_commit == DictGet(old_submodules, path)
             new_commit == DictGet(new_submodules, path)
             rest       == ChangedSubmodules(Tail(ord), old_submodules, new_submodules,
                                             old_sha, new_sha)
         IN  IF old_commit # new_commit
             THEN <<SubmoduleInfo(path, old_sha, new_sha, old_commit, new_commit)>> \o rest
             ELSE rest

\* a mutant of get_submodule_info: only the paths of the new listing are visited
get_submodule_info_new_only(old_ls, new_ls, old_sha, new_sha) ==
    {ChangedSubmodules(ord, ListingDict(old_ls), ListingDict(new_ls), old_sha, new_sha) :
        ord \in Orderings(DOMAIN ListingDict(new_ls))}

\* get_submodule_info: the lists it can return, one per iteration order of the
\* set all_paths
get_submodule_info(old_ls, new_ls, old_sha, new_sha) ==
    {ChangedSubmodules(ord, ListingDict(old_ls), ListingDict(new_ls), old_sha, new_sha) :
        ord \in Orderings(DOMAIN ListingDict(old_ls) \cup DOMAIN ListingDict(new_ls))}

----------------------------------------------------------------------------
(* Tree listings: what `git ls-tree -r <ref>` writes, one row per path *)

LsTreeRows ==
    { <<"100644", "blob", "b1", "readme">>,
      <<"100644", "blob", "b2", "commit">>,
      <<"160000", "commit", "c1", "libs">>,
      <<"160000", "commit", "c2", "libs">>,
      <<"160000", "commit", "c1", "ext">>,
      <<"160000", "commit", "c2", "my", "sub">> }

RowPath(row) == SubSeq(row, 4, Len(row))

\* a tree holds each path once
Listings ==
    {ls \in SeqsUpTo(LsTreeRows, MaxLines) :
        \A i, j \in DOMAIN ls : i # j => RowPath(ls[i]) # RowPath(ls[j])}

ListingOutcomes ==
    {[ok |-> TRUE, lines |-> ls] : ls \in Listings} \cup {[ok |-> FALSE, lines |-> <<>>]}

\* the commit identifier a path points at in a listing, None when the listing has
\* no commit-link row for it or could not be obtained
Pointer(ls, path) ==
    IF ls.ok /\ \E k \in DOMAIN ls.lines :
                  ls.lines[k][2] = "commit" /\ RowPath(ls.lines[k]) = path
    THEN LET k == CHOOSE k \in DOMAIN ls.lines :
                      ls.lines[k][2] = "commit" /\ RowPath(ls.lines[k]) = path
         IN  ls.lines[k][3]
    ELSE None

ListedPaths == {RowPath(row) : row \in LsTreeRows}

----------------------------------------------------------------------------
(* Well-formed status streams: what `git diff --name-status -z` writes *)

PathTokens == {<<"a">>, <<"b">>, <<"R">>}

Similarities == {0, 7, 100}

\* n zeros
Zeros(n) == [i \in 1..n |-> "0"]

\* git writes a similarity score with three digits (R007, R075, R100): the leading
\* zeros it puts before the digits of the score
GitZeros(similarity) == 3 - Len(DigitsOfInt(similarity))

\* a record of the stream: a status letter, a similarity (rename/copy only) with
\* the leading zeros it is written with, and one or two paths
PlainRecords ==
    [status : {"M", "A", "D", "T"}, similarity : {0}, zeros : {0},
     paths : {<<p>> : p \in PathTokens}]

RenameRecords ==
    {r \in [status : {"R", "C"}, similarity : Similarities, zeros : 0..2,
            paths : {<<"a">>} \X {<<"b">>} \cup {<<"R">>} \X {<<"a">>}] :
        r.zeros \in {0, GitZeros(r.similarity)}}

Records == PlainRecords \cup RenameRecords

StatusToken(rec) ==
    IF rec.status \in {"R", "C"}
    THEN <<rec.status>> \o Zeros(rec.zeros) \o DigitsOfInt(rec.similarity)
    ELSE <<rec.status>>

\* the fields git writes for a sequence of records, each NUL-terminated
RECURSIVE Serialize(_)
Serialize(recs) ==
    IF recs = <<>> THEN <<>>
    ELSE <<StatusToken(Head(recs))>> \o Head(recs).paths \o Serialize(Tail(recs))

\* the DiffEntry the specification assigns to a record
EntryOfRecord(rec) ==
    DiffEntry(rec.status, rec.paths[1], rec.paths[Len(rec.paths)], rec.similarity)

----------------------------------------------------------------------------
(* The session: MainWindow, its FileManager and its worker threads *)

Threads == 1..MaxThreads

\* revision names typed into the SHA fields; "bad" resolves to no object
Refs == {"r1", "r2", "bad"}

Resolves(ref) == ref # "bad"

\* the repositories the path field can name: one without submodules and one with
RepoPaths == {"flat", "modular"}

\* no submodule: the value of a field that holds a SubmoduleInfo when there is none
NoSubmodule == SubmoduleInfo(<<>>, None, None, None, None)

\* the DiffEntry a run handled last: where it came from, the Content Retriever
\* calls made for it and the files handed to the FileManager for it
NoCur ==
    [scope |-> "none", entry |-> None, submodule |-> NoSubmodule, reqs |-> {}, writes |-> {},
     raised |-> FALSE, ok_writes |-> 0, failed_writes |-> 0,
     logged_failure |-> FALSE, logged_done |-> FALSE, copied |-> 0, recorded |-> 0]

\* the call of _process_submodule that returned last: whether the submodule was
\* found initialized, whether it was opened (initialized, a repository, diffed), the
\* commands run against its own store, the nested entries the loop never reached,
\* and whether its own trees hold a changed, initialized submodule
NoRet == [submodule |-> NoSubmodule, initialized |-> FALSE, opened |-> FALSE, sub_queries |-> {},
          left |-> <<>>, nested_changed |-> FALSE]

\* no statistics taken yet
NoStats == [copied_files |-> -1, failed_files |-> -1]

\* a thread slot with no run in it; valid holds what validate_repository returned,
\* empty_diff whether the diff of the run returned an empty stream, skipped whether
\* a submodule of the run was found uninitialized, engine the GitEngine the worker
\* constructed, used the engines self.git_engine named when the worker called a
\* method of it, sub_engine the local of _process_submodule, sub_diff the two
\* revisions of the sub_engine.get_diff_entries call made in the step before
IdleRun ==
    [kind |-> "none", pc |-> "idle", old_sha |-> None, new_sha |-> None,
     todo |-> <<>>, submodules |-> <<>>, submodule |-> NoSubmodule, sub_todo |-> <<>>,
     valid |-> {}, attempted |-> 0, start_stats |-> NoStats, stats |-> NoStats,
     dir_ops |-> {}, queries |-> {}, empty_diff |-> FALSE, skipped |-> FALSE,
     engine |-> <<>>, used |-> {}, sub_engine |-> <<>>, sub_diff |-> <<>>,
     cur |-> NoCur, ret |-> NoRet]

\* FileManager.__init__
NewFileManager == [copied_files |-> 0, failed_files |-> 0]

\* MainWindow.__init__: self.git_engine = None
NoEngine == <<>>

\* GitEngine(repo_path): the engine is known by the path of its repository
GitEngine(repo_path) == <<repo_path>>

SessionIdle ==
    /\ c_sha = None
    /\ c_path = <<>>
    /\ c_outcome = None
    /\ c_result = None
    /\ c_pc = "idle"
    /\ repo_path_var = None
    /\ old_sha_var = None
    /\ new_sha_var = None
    /\ git_engine = NoEngine
    /\ file_manager = NewFileManager
    /\ out_dir = "absent"
    /\ run = [t \in Threads |-> IdleRun]
    /\ progress_queue = [t \in Threads |-> <<>>]
    /\ runs_started = 0

\* progress_queue.put(item): only the kind of an item is kept, and a run of
\* consecutive "log" items is kept as one
Put(q, kind) ==
    IF kind = "log" /\ q # <<>> /\ q[Len(q)] = "log" THEN q ELSE Append(q, kind)

\* GitEngine.validate_repository: .git exists, or rev-parse --is-inside-work-tree
\* prints "true"; a failing command reads as False
validate_repository(git_dir_exists, rev_parse) ==
    IF git_dir_exists THEN TRUE ELSE rev_parse = "true"

RevParseOutcomes == {"true", "false", "raise"}

\* GitEngine.validate_sha: rev-parse <sha> succeeded
validate_sha(sha, command_ok) == Resolves(sha) /\ command_ok

\* A message is the sequence of its fragments. The fragments a caller searches a
\* message for are fragments of their own, also where a path or a revision name
\* holds such a text.
Contains(message, fragment) == \E i \in DOMAIN message : message[i] = fragment

\* how a git process can end: it exits 0, it exits non-zero with git's complaint on
\* stderr, it outlives the timeout, or the executable is not there
ShowOutcomes ==
    {"ok", "ok_empty", "path_missing", "path_not_in_revision", "bad_revision",
     "other_failure", "timeout", "no_executable"}

\* what `git show <sha>:<file_path>` writes to stderr when it exits non-zero
ShowStderr(sha, file_path, outcome) ==
    CASE outcome = "path_missing" ->
             <<"fatal: path", "'">> \o file_path \o <<"'", "does not exist", "in", "'", sha, "'">>
      [] outcome = "path_not_in_revision" ->
             <<"fatal: path", "'">> \o file_path
                 \o <<"'", "exists on disk, but not in", "'", sha, "'">>
      [] outcome = "bad_revision" ->
             <<"fatal: ", "invalid object", " name ", "'", sha, "'.">>
      [] OTHER -> <<"fatal: ", "unable to read tree">>

\* GitEngine._run_git_command: the completed process, or the text of the exception
\* it raises, which quotes the arguments of the command (the fixed words of the
\* three texts are given in English)
run_git_command(args, outcome, stderr) ==
    CASE outcome \in {"ok", "ok_empty"} ->
             [raised |-> FALSE, message |-> <<>>,
              stdout |-> IF outcome = "ok" THEN "bytes" ELSE "empty"]
      [] outcome = "timeout" ->
             [raised |-> TRUE, message |-> <<"Git command timed out: ">> \o args,
              stdout |-> "empty"]
      [] outcome = "no_executable" ->
             [raised |-> TRUE, message |-> <<"Git executable not found: ", "git">>,
              stdout |-> "empty"]
      [] OTHER ->
             [raised |-> TRUE,
              message |-> <<"Git command failed: ">> \o args \o <<"error: ">> \o stderr,
              stdout |-> "empty"]

\* GitEngine.get_file_content: the blob, b'' for an empty blob and for an exception
\* whose text holds one of three fragments, an exception otherwise
get_file_content(sha, file_path, outcome) ==
    LET result == run_git_command(<<"--no-pager", "show", sha, ":">> \o file_path, outcome,
                                  ShowStderr(sha, file_path, outcome))
    IN  IF ~result.raised THEN result.stdout
        ELSE IF \/ Contains(result.message, "does not exist")
                \/ Contains(result.message, "fatal: path")
                \/ Contains(result.message, "invalid object")
        THEN "empty"
        ELSE "raise"

\* what get_file_content can come to for the revisions and paths of a run
ShowResults ==
    {get_file_content(sha, file_path, outcome) :
        sha \in Refs, file_path \in {<<"a">>, <<"b">>}, outcome \in ShowOutcomes}

\* GitEngine.is_submodule_initialized on what <submodule>/.git is on disk
is_submodule_initialized(dot_git) ==
    CASE dot_git = "missing" -> FALSE
      [] dot_git = "directory" -> TRUE
      [] dot_git = "gitdir_file" -> TRUE
      [] dot_git = "dangling_gitdir_file" -> FALSE
      [] dot_git = "unreadable_file" -> FALSE
      [] OTHER -> TRUE

DotGitStates ==
    {"missing", "directory", "gitdir_file", "dangling_gitdir_file", "unreadable_file",
     "other_file"}

\* FileManager.prepare_output_directory: the answer to the "directory exists" dialog
\* and the outcome of the directory operations give success, the directory afterwards
\* and what was done to it
prepare_output_directory(dir, response, io) ==
    IF dir = "present" /\ response = "cancel"
    THEN [success |-> FALSE, dir |-> "present", ops |-> {}]
    ELSE IF dir = "present" /\ response = "no"
    THEN IF io = "makedirs_fails"
         THEN [success |-> FALSE, dir |-> "present", ops |-> {}]
         ELSE [success |-> TRUE, dir |-> "present", ops |-> {"makedirs"}]
    ELSE IF dir = "present" /\ io = "rmtree_fails"
    THEN [success |-> FALSE, dir |-> "present", ops |-> {}]
    ELSE IF io = "makedirs_fails"
    THEN [success |-> FALSE, dir |-> "absent",
          ops |-> IF dir = "present" THEN {"rmtree"} ELSE {}]
    ELSE [success |-> TRUE, dir |-> "present",
          ops |-> (IF dir = "present" THEN {"rmtree"} ELSE {}) \cup {"makedirs"}]

DialogResponses == {"yes", "no", "cancel"}

IoOutcomes == {"ok", "rmtree_fails", "makedirs_fails"}

\* the branches of _process_diff_files on entry.status: the sides fetched, in order
TopLevelSides(status) ==
    CASE status \in {"M", "T"} -> <<"old", "new">>
      [] status = "A" -> <<"new">>
      [] status = "D" -> <<"old">>
      [] status \in {"R", "C"} -> <<"old", "new">>
      [] OTHER -> <<>>

\* the branches of _process_submodule on entry.status: the sides fetched, in order
SubmoduleSides(status) ==
    CASE status \in {"M", "T"} -> <<"old", "new">>
      [] status = "A" -> <<"new">>
      [] status = "D" -> <<"old">>
      [] OTHER -> <<>>

\* the position of the first side whose retrieval raises, which ends the handling of
\* the entry; 0 when every retrieval returns
FirstRaise(sides, shows) ==
    LET bad == {k \in 1..Len(sides) : shows[k] = "raise"}
    IN  IF bad = {} THEN 0 ELSE CHOOSE k \in bad : \A j \in bad : k <= j

\* the sides for which get_file_content is called
RequestedSides(sides, shows) ==
    IF FirstRaise(sides, shows) = 0 THEN 1..Len(sides) ELSE 1..FirstRaise(sides, shows)

\* the sides whose content is handed to copy_file_with_structure
RetrievedSides(sides, shows) ==
    IF FirstRaise(sides, shows) = 0 THEN 1..Len(sides)
    ELSE 1..(FirstRaise(sides, shows) - 1)

SidePath(entry, side) == IF side = "old" THEN entry.old_path ELSE entry.new_path

\* self.git_engine.get_file_content(old_sha | new_sha, entry.old_path | entry.new_path)
TopLevelRequest(engine, old_sha, new_sha, entry, side) ==
    [store |-> engine, ref |-> IF side = "old" THEN old_sha ELSE new_sha,
     path |-> SidePath(entry, side), side |-> side]

\* GitEngine.get_submodule_engine: an engine rooted at <repo_path>/<submodule_path>
get_submodule_engine(engine, submodule_path) == engine \o submodule_path

\* Python's `a or b` on a commit that may be None
Or(a, b) == IF a # None THEN a ELSE b

\* _process_submodule: sub_engine.get_diff_entries(submodule.old_commit or
\* submodule.old_sha, submodule.new_commit or submodule.new_sha)
SubmoduleDiffRefs(submodule) ==
    <<Or(submodule.old_commit, submodule.old_sha), Or(submodule.new_commit, submodule.new_sha)>>

\* sub_engine.get_file_content(submodule.old_commit | submodule.new_commit, path)
SubmoduleRequest(sub_engine, submodule, entry, side) ==
    [store |-> sub_engine,
     ref |-> IF side = "old" THEN submodule.old_commit ELSE submodule.new_commit,
     path |-> SidePath(entry, side), side |-> side]

\* a mutant of the mapping: the nested path is written without the submodule's path
MappedPathUnprefixed(submodule, entry, side) == SidePath(entry, side)

\* os.path.join(submodule.path, entry.old_path | entry.new_path)
MappedPath(submodule, entry, side) == <<submodule.path, SidePath(entry, side)>>

\* FileManager.copy_file_with_structure: the file is written below <version>/
WriteTarget(version, file_path) == [version |-> version, file_path |-> file_path]

\* a mutant of copy_file_to_directory: a failed write is also counted as copied
copy_file_to_directory_counts_both(fm, ok_writes, failed_writes) ==
    [copied_files |-> fm.copied_files + ok_writes + failed_writes,
     failed_files |-> fm.failed_files + failed_writes]

\* FileManager.copy_file_to_directory: a write counts in copied_files, a failed one
\* is appended to failed_files
copy_file_to_directory(fm, ok_writes, failed_writes) ==
    [copied_files |-> fm.copied_files + ok_writes,
     failed_files |-> fm.failed_files + failed_writes]

\* the except clause of _process_diff_files: the entry is appended to failed_files
RecordEntryFailure(fm, raised) ==
    [fm EXCEPT !.failed_files = @ + (IF raised THEN 1 ELSE 0)]

----------------------------------------------------------------------------
(* Parser harness *)

\* the stream of the specification's example:
\* M\0a.txt\0A\0b.txt\0D\0c.txt\0R100\0old.txt\0new.txt\0
ExampleStdout ==
    << <<"M">>, <<"a", ".", "t", "x", "t">>,
       <<"A">>, <<"b", ".", "t", "x", "t">>,
       <<"D">>, <<"c", ".", "t", "x", "t">>,
       <<"R", "1", "0", "0">>, <<"o", "l", "d", ".", "t", "x", "t">>,
                               <<"n", "e", "w", ".", "t", "x", "t">> >>

ExampleRecords ==
    << [status |-> "M", similarity |-> 0, zeros |-> 0, paths |-> << <<"a", ".", "t", "x", "t">> >>],
       [status |-> "A", similarity |-> 0, zeros |-> 0, paths |-> << <<"b", ".", "t", "x", "t">> >>],
       [status |-> "D", similarity |-> 0, zeros |-> 0, paths |-> << <<"c", ".", "t", "x", "t">> >>],
       [status |-> "R", similarity |-> 100, zeros |-> 0,
        paths |-> << <<"o", "l", "d", ".", "t", "x", "t">>,
                     <<"n", "e", "w", ".", "t", "x", "t">> >>] >>

ExampleEntries ==
    << [status |-> "M", old_path |-> <<"a", ".", "t", "x", "t">>,
        new_path |-> <<"a", ".", "t", "x", "t">>, similarity |-> 0],
       [status |-> "A", old_path |-> <<"b", ".", "t", "x", "t">>,
        new_path |-> <<"b", ".", "t", "x", "t">>, similarity |-> 0],
       [status |-> "D", old_path |-> <<"c", ".", "t", "x", "t">>,
        new_path |-> <<"c", ".", "t", "x", "t">>, similarity |-> 0],
       [status |-> "R", old_path |-> <<"o", "l", "d", ".", "t", "x", "t">>,
        new_path |-> <<"n", "e", "w", ".", "t", "x", "t">>, similarity |-> 100] >>

ParseInit ==
    /\ p_records \in SeqsUpTo(Records, MaxRecords) \cup {ExampleRecords}
    /\ p_stdout = Serialize(p_records)
    /\ p_entries = <<>>
    /\ p_pc = "input"
    /\ s_old_ls = [ok |-> FALSE, lines |-> <<>>]
    /\ s_new_ls = [ok |-> FALSE, lines |-> <<>>]
    /\ s_info = <<>>
    /\ s_pc = "idle"
    /\ SessionIdle

GetDiffEntries ==
    /\ p_pc = "input"
    /\ p_entries' = get_diff_entries(p_stdout)
    /\ p_pc' = "parsed"
    /\ UNCHANGED <<p_records, p_stdout>>
    /\ UNCHANGED <<subVars, showVars, sessionVars>>

ParseNext == GetDiffEntries

SpecParse == ParseInit /\ [][ParseNext]_vars

----------------------------------------------------------------------------
(* Claims about the parser *)

\* C1: for every well-formed NUL-delimited name-status stream get_diff_entries
\* returns exactly one DiffEntry per record, in stream order: M, A, D and T records
\* take one path (old_path = new_path), R<digits> and C<digits> records take two
\* (old_path first, new_path second) with similarity the value of the digits; the
\* example stream of the specification yields its four entries.
C1_ParseWellFormed ==
    p_pc = "parsed" =>
        /\ Len(p_entries) = Len(p_records)
        /\ \A k \in 1..Len(p_records) :
              /\ p_entries[k] = EntryOfRecord(p_records[k])
              /\ p_records[k].status \in {"M", "A", "D", "T"}
                    => p_entries[k].old_path = p_entries[k].new_path
              /\ p_records[k].status \in {"R", "C"}
                    => /\ p_entries[k].old_path = p_records[k].paths[1]
                       /\ p_entries[k].new_path = p_records[k].paths[2]
                       /\ p_entries[k].similarity = p_records[k].similarity
        /\ p_stdout = ExampleStdout => p_entries = ExampleEntries

\* C1 witness: the example stream has been parsed into four entries, a rename last
C1_Witness ==
    /\ p_pc = "parsed"
    /\ p_stdout = ExampleStdout
    /\ Len(p_entries) = 4
    /\ p_entries[4].status = "R"

\* the name-status format written back from a list of entries: per entry the
\* status token, for R and C the letter and the similarity in git's three digits,
\* then the path, for R and C the old path and the new path
RECURSIVE Reserialize(_)
Reserialize(entries) ==
    IF entries = <<>> THEN <<>>
    ELSE LET e == Head(entries)
         IN  IF e.status \in {"R", "C"}
             THEN << <<e.status>> \o Zeros(GitZeros(e.similarity)) \o DigitsOfInt(e.similarity),
                     e.old_path, e.new_path >> \o Reserialize(Tail(entries))
             ELSE << <<e.status>>, e.old_path >> \o Reserialize(Tail(entries))

\* the records with every similarity written the way git writes it
RECURSIVE GitWritten(_)
GitWritten(recs) ==
    IF recs = <<>> THEN <<>>
    ELSE <<[Head(recs) EXCEPT !.zeros =
                IF Head(recs).status \in {"R", "C"} THEN GitZeros(Head(recs).similarity) ELSE 0]>>
         \o GitWritten(Tail(recs))

\* C13 as stated: for every well-formed stream, parsing and writing the entries
\* back in the same format recovers the same status and path tokens.
C13_RoundTripEveryStream ==
    p_pc = "parsed" => Reserialize(p_entries) = p_stdout

\* C13, amended: parsing and writing back recovers the stream when every R and C
\* token carries its similarity as git writes it, in three digits; for any other
\* well-formed stream it recovers the stream with the similarities rewritten so.
C13_RoundTripGitFormat ==
    p_pc = "parsed" =>
        /\ Reserialize(p_entries) = Serialize(GitWritten(p_records))
        /\ p_records = GitWritten(p_records) => Reserialize(p_entries) = p_stdout

C13_Witness ==
    /\ p_pc = "parsed"
    /\ Len(p_records) = MaxRecords
    /\ p_records[1].status = "R" /\ p_records[1].similarity = 7 /\ p_records[1].zeros = 2
    /\ p_records[2].status = "M"
    /\ p_records[3].status = "C" /\ p_records[3].similarity = 100
    /\ Reserialize(p_entries) = p_stdout

\* what follows the letter of an R or C status token when it is not a digit string
MalformedSuffixes == {<<>>, <<"x">>, <<"7", "x">>}

\* the fields of a sequence of records whose R and C status tokens are written
\* with the suffix sfx in place of the digits
RECURSIVE SerializeMalformed(_, _)
SerializeMalformed(recs, sfx) ==
    IF recs = <<>> THEN <<>>
    ELSE LET rec == Head(recs)
             token == IF rec.status \in {"R", "C"} THEN <<rec.status>> \o sfx
                      ELSE StatusToken(rec)
         IN  <<token>> \o rec.paths \o SerializeMalformed(Tail(recs), sfx)

\* streams with at least one R or C record, each written with a malformed
\* similarity; p_records holds the records with the similarity 0 of the fallback
MalformedInit ==
    /\ p_records \in {recs \in SeqsUpTo({r \in Records : r.similarity = 0 /\ r.zeros = 0},
                                        MaxRecords) :
                          \E k \in DOMAIN recs : recs[k].status \in {"R", "C"}}
    /\ p_stdout \in {SerializeMalformed(p_records, sfx) : sfx \in MalformedSuffixes}
    /\ p_entries = <<>>
    /\ p_pc = "input"
    /\ s_old_ls = [ok |-> FALSE, lines |-> <<>>]
    /\ s_new_ls = [ok |-> FALSE, lines |-> <<>>]
    /\ s_info = <<>>
    /\ s_pc = "idle"
    /\ SessionIdle

SpecMalformed == MalformedInit /\ [][ParseNext]_vars

\* C15: for a stream whose R and C status tokens have a remainder that is not a
\* digit string, get_diff_entries yields, per record and in order, the entry the
\* well-formed record would give with similarity 0: the status R or C, the old path
\* and the new path of the record, and every other record parsed as usual.
C15_MalformedSimilarityFallback ==
    p_pc = "parsed" =>
        /\ Len(p_entries) = Len(p_records)
        /\ \A k \in 1..Len(p_records) : p_entries[k] = EntryOfRecord(p_records[k])

----------------------------------------------------------------------------
(* Resolver harness *)

SubInit ==
    /\ s_old_ls \in ListingOutcomes
    /\ s_new_ls \in ListingOutcomes
    /\ s_info = <<>>
    /\ s_pc = "input"
    /\ p_records = <<>>
    /\ p_stdout = <<>>
    /\ p_entries = <<>>
    /\ p_pc = "idle"
    /\ SessionIdle

GetSubmoduleInfo ==
    /\ s_pc = "input"
    /\ s_info' \in get_submodule_info(s_old_ls, s_new_ls, "old", "new")
    /\ s_pc' = "resolved"
    /\ UNCHANGED <<s_old_ls, s_new_ls>>
    /\ UNCHANGED <<parseVars, showVars, sessionVars>>

SubNext == GetSubmoduleInfo

SpecSub == SubInit /\ [][SubNext]_vars

\* C8: get_submodule_info emits a change for a path iff the commit identifier the
\* path points at in the old revision differs from the one in the new revision, one
\* side being absent counting as different; a path whose pointer is the same on both
\* sides produces no change, and each changed path is emitted exactly once, carrying
\* the two pointers.
C8_SubmoduleChangeIff ==
    s_pc = "resolved" =>
        \A path \in ListedPaths :
            LET emitted == {k \in DOMAIN s_info : s_info[k].path = path}
            IN  /\ (emitted # {}) <=> (Pointer(s_old_ls, path) # Pointer(s_new_ls, path))
                /\ Cardinality(emitted) <= 1
                /\ \A k \in emitted :
                      /\ s_info[k].old_commit = Pointer(s_old_ls, path)
                      /\ s_info[k].new_commit = Pointer(s_new_ls, path)

\* C8 witness: one path keeps its pointer and is not emitted, another is removed
\* between the revisions and is emitted with an absent new side
C8_Witness ==
    /\ s_pc = "resolved"
    /\ Pointer(s_old_ls, <<"ext">>) = "c1"
    /\ Pointer(s_new_ls, <<"ext">>) = "c1"
    /\ Pointer(s_old_ls, <<"libs">>) = "c2"
    /\ Pointer(s_new_ls, <<"libs">>) = None
    /\ Len(s_info) = 1
    /\ s_info[1].path = <<"libs">>
    /\ s_info[1].new_commit = None

----------------------------------------------------------------------------
(* What git answers in a run *)

RunRecords ==
    { [status |-> "M", similarity |-> 0, zeros |-> 0, paths |-> << <<"a">> >>],
      [status |-> "A", similarity |-> 0, zeros |-> 0, paths |-> << <<"b">> >>],
      [status |-> "D", similarity |-> 0, zeros |-> 0, paths |-> << <<"a">> >>],
      [status |-> "T", similarity |-> 0, zeros |-> 0, paths |-> << <<"b">> >>],
      [status |-> "R", similarity |-> 7, zeros |-> 2, paths |-> << <<"a">>, <<"b">> >>],
      [status |-> "C", similarity |-> 100, zeros |-> 0, paths |-> << <<"a">>, <<"b">> >>] }

RunStreams == {Serialize(recs) : recs \in SeqsUpTo(RunRecords, MaxEntries)}

DiffFailed == [ok |-> FALSE, stdout |-> <<>>]

\* the outcomes of `git diff --name-status -z` in a store: the top level of the
\* repository without submodules and the submodule libs of the other change any
\* files, the top level of the repository with submodules changes the file a or
\* the pointer of its submodule libs (which git diff lists as any modified path,
\* "M libs") or nothing, and its submodule ext adds the file b
StoreDiffOutcomes(store) ==
    IF store = <<"modular">>
    THEN {DiffFailed, [ok |-> TRUE, stdout |-> <<>>],
          [ok |-> TRUE, stdout |-> << <<"M">>, <<"a">> >>],
          [ok |-> TRUE, stdout |-> << <<"M">>, <<"libs">> >>]}
    ELSE IF store = <<"modular", "ext">>
    THEN {DiffFailed, [ok |-> TRUE, stdout |-> << <<"A">>, <<"b">> >>]}
    ELSE {DiffFailed} \cup {[ok |-> TRUE, stdout |-> st] : st \in RunStreams}

ListingFailed == [ok |-> FALSE, lines |-> <<>>]

\* the outcomes of `git ls-tree -r` for the old and the new revision of a repository
RepoOldListings(repo) ==
    IF repo = <<"modular">>
    THEN { ListingFailed,
           [ok |-> TRUE, lines |-> << <<"160000", "commit", "c1", "libs">> >>],
           [ok |-> TRUE, lines |-> << <<"160000", "commit", "c1", "libs">>,
                                      <<"160000", "commit", "c1", "ext">> >>] }
    ELSE { ListingFailed, [ok |-> TRUE, lines |-> << <<"100644", "blob", "b1", "a">> >>] }

RepoNewListings(repo) ==
    IF repo = <<"modular">>
    THEN { [ok |-> TRUE, lines |-> << <<"160000", "commit", "c2", "libs">> >>],
           [ok |-> TRUE, lines |-> << <<"160000", "commit", "c2", "libs">>,
                                      <<"160000", "commit", "c1", "ext">> >>] }
    ELSE { ListingFailed, [ok |-> TRUE, lines |-> << <<"100644", "blob", "b2", "a">> >>] }

\* the paths that a tree of the repository holds as commit-links (mode 160000)
CommitLinkPaths(repo) ==
    UNION {DOMAIN ParseLsTree(ls.lines, EmptyDict) :
              ls \in RepoOldListings(repo) \cup RepoNewListings(repo)}

\* what handling the sides of one entry comes to, for given outcomes of `git show`
\* and of the writes
HandleSides(sides, shows, wr) ==
    [req    |-> RequestedSides(sides, shows),
     got    |-> RetrievedSides(sides, shows),
     okw    |-> {k \in RetrievedSides(sides, shows) : wr[k]},
     raised |-> FirstRaise(sides, shows) # 0]

SideResults(sides) ==
    {HandleSides(sides, shows, wr) : shows \in [1..2 -> ShowResults], wr \in [1..2 -> BOOLEAN]}

----------------------------------------------------------------------------
(* The runs: MainWindow._copy_files, _list_diff and their worker threads *)

SessionInit ==
    /\ SessionIdle
    /\ p_records = <<>>
    /\ p_stdout = <<>>
    /\ p_entries = <<>>
    /\ p_pc = "idle"
    /\ s_old_ls = [ok |-> FALSE, lines |-> <<>>]
    /\ s_new_ls = [ok |-> FALSE, lines |-> <<>>]
    /\ s_info = <<>>
    /\ s_pc = "idle"

\* the values the user has typed into the two SHA fields
ShaFieldValues == {<<"r1", "r2">>, <<"bad", "r2">>, <<"r1", "bad">>}

\* a button handler, the fields filled in, starts a daemon thread for the worker
StartThread(t, kind) ==
    /\ run[t].pc \in {"idle", "done"}
    /\ runs_started < MaxRuns
    /\ file_manager.copied_files + file_manager.failed_files <= MaxCarried
    /\ \E repo \in RepoPaths, shas \in ShaFieldValues :
          /\ repo_path_var' = repo
          /\ old_sha_var' = shas[1]
          /\ new_sha_var' = shas[2]
    /\ run' = [run EXCEPT ![t] = [IdleRun EXCEPT !.kind = kind, !.pc = "begin"]]
    /\ progress_queue' = [progress_queue EXCEPT ![t] = <<>>]
    /\ runs_started' = runs_started + 1
    /\ UNCHANGED <<git_engine, file_manager, out_dir>>
    /\ UNCHANGED <<parseVars, subVars, showVars>>

\* MainWindow._copy_files, confirmed by the user
CopyFiles(t) == StartThread(t, "copy")

\* MainWindow._list_diff
ListDiff(t) == StartThread(t, "list")

\* both workers: put "start", then self.git_engine = GitEngine(repo_path_var.get())
WorkerBegin(t) ==
    /\ run[t].pc = "begin"
    /\ progress_queue' = [progress_queue EXCEPT ![t] = Put(@, "start")]
    /\ git_engine' = GitEngine(repo_path_var)
    /\ run' = [run EXCEPT ![t].pc = "validate", ![t].start_stats = file_manager,
                          ![t].engine = GitEngine(repo_path_var)]
    /\ UNCHANGED <<repo_path_var, old_sha_var, new_sha_var, file_manager, out_dir, runs_started>>
    /\ UNCHANGED <<parseVars, subVars, showVars>>

\* a mutant of the branch on validate_repository: the worker goes on
AfterValidateRepositoryNoReturn(kind, valid) ==
    IF kind = "copy" THEN "prepare" ELSE "validate_sha"

\* both workers: `if not self.git_engine.validate_repository(): put error; return`
AfterValidateRepository(kind, valid) ==
    IF ~valid THEN "done" ELSE IF kind = "copy" THEN "prepare" ELSE "validate_sha"

\* both workers: validate the repository, then read the two SHA fields
ValidateRepository(t) ==
    /\ run[t].pc = "validate"
    /\ \E valid \in {validate_repository(git_dir, rev_parse) :
                         git_dir \in BOOLEAN, rev_parse \in RevParseOutcomes} :
         LET next == AfterValidateRepository(run[t].kind, valid)
         IN  /\ run' = [run EXCEPT ![t].pc = next,
                                   ![t].valid = {valid},
                                   ![t].used = @ \cup {git_engine},
                                   ![t].old_sha = IF next = "done" THEN @ ELSE old_sha_var,
                                   ![t].new_sha = IF next = "done" THEN @ ELSE new_sha_var]
             /\ progress_queue' = [progress_queue EXCEPT ![t] =
                                      IF ~valid THEN Put(@, "error") ELSE @]
    /\ UNCHANGED <<repo_path_var, old_sha_var, new_sha_var, git_engine, file_manager, out_dir,
                   runs_started>>
    /\ UNCHANGED <<parseVars, subVars, showVars>>

\* _list_diff_worker: validate_sha(old_sha), then validate_sha(new_sha)
ValidateShas(t) ==
    /\ run[t].pc = "validate_sha"
    /\ \E old_ok \in BOOLEAN, new_ok \in BOOLEAN :
         LET good == validate_sha(run[t].old_sha, old_ok) /\ validate_sha(run[t].new_sha, new_ok)
         IN  /\ run' = [run EXCEPT ![t].pc = IF good THEN "diff" ELSE "done",
                                   ![t].used = @ \cup {git_engine}]
             /\ progress_queue' = [progress_queue EXCEPT ![t] =
                                      IF good THEN @ ELSE Put(@, "error")]
    /\ UNCHANGED <<repo_path_var, old_sha_var, new_sha_var, git_engine, file_manager, out_dir,
                   runs_started>>
    /\ UNCHANGED <<parseVars, subVars, showVars>>

\* what _copy_files_worker does with the result of prepare_output_directory
AfterPrepare(t, res) ==
    /\ out_dir' = res.dir
    /\ run' = [run EXCEPT ![t].pc = IF res.success THEN "diff" ELSE "done",
                          ![t].dir_ops = @ \cup res.ops]
    /\ progress_queue' = [progress_queue EXCEPT ![t] =
                             IF res.success THEN @ ELSE Put(@, "error")]

\* _copy_files_worker: prepare_output_directory(output_path, folder_name); when the
\* directory exists the worker thread opens the "directory exists" dialog and waits
\* for the answer
PrepareOutputDirectory(t) ==
    /\ run[t].pc = "prepare"
    /\ IF out_dir = "present"
       THEN /\ run' = [run EXCEPT ![t].pc = "dialog"]
            /\ UNCHANGED <<out_dir, progress_queue>>
       ELSE \E res \in {prepare_output_directory(out_dir, "yes", io) : io \in IoOutcomes} :
               AfterPrepare(t, res)
    /\ UNCHANGED <<repo_path_var, old_sha_var, new_sha_var, git_engine, file_manager,
                   runs_started>>
    /\ UNCHANGED <<parseVars, subVars, showVars>>

\* the user answers the dialog of prepare_output_directory, which then keeps,
\* clears or leaves the directory
AnswerDialog(t) ==
    /\ run[t].pc = "dialog"
    /\ \E res \in {prepare_output_directory(out_dir, response, io) :
                       response \in DialogResponses, io \in IoOutcomes} :
         AfterPrepare(t, res)
    /\ UNCHANGED <<repo_path_var, old_sha_var, new_sha_var, git_engine, file_manager,
                   runs_started>>
    /\ UNCHANGED <<parseVars, subVars, showVars>>

\* both workers: diff_entries = self.git_engine.get_diff_entries(old_sha, new_sha); a
\* failing command raises into the worker's except clause
GetDiff(t) ==
    /\ run[t].pc = "diff"
    /\ \E diff \in StoreDiffOutcomes(git_engine) :
         /\ diff.ok => Resolves(run[t].old_sha) /\ Resolves(run[t].new_sha)
         /\ run' = [run EXCEPT ![t].pc = IF ~diff.ok THEN "done"
                                         ELSE IF run[t].kind = "copy" THEN "files"
                                         ELSE "submodules",
                               ![t].todo = IF diff.ok /\ run[t].kind = "copy"
                                           THEN get_diff_entries(diff.stdout) ELSE <<>>,
                               ![t].queries = @ \cup {"diff"},
                               ![t].used = @ \cup {git_engine},
                               ![t].empty_diff = diff.ok /\ diff.stdout = <<>>]
         /\ progress_queue' = [progress_queue EXCEPT ![t] =
                                  IF diff.ok THEN Put(@, "log") ELSE Put(@, "error")]
    /\ UNCHANGED <<repo_path_var, old_sha_var, new_sha_var, git_engine, file_manager, out_dir,
                   runs_started>>
    /\ UNCHANGED <<parseVars, subVars, showVars>>

\* _process_diff_files: one iteration of the loop over diff_entries
ProcessDiffEntry(t) ==
    /\ run[t].pc = "files"
    /\ run[t].todo # <<>>
    /\ LET entry == Head(run[t].todo)
           sides == TopLevelSides(entry.status)
       IN  \E res \in SideResults(sides) :
             /\ file_manager' =
                    RecordEntryFailure(
                        copy_file_to_directory(file_manager, Cardinality(res.okw),
                                               Cardinality(res.got \ res.okw)),
                        res.raised)
             /\ run' = [run EXCEPT
                    ![t].todo = Tail(@),
                    ![t].attempted = @ + Cardinality(res.req),
                    ![t].used = IF res.req = {} THEN @ ELSE @ \cup {git_engine},
                    ![t].cur =
                        [scope |-> "top", entry |-> entry, submodule |-> NoSubmodule,
                         reqs |-> {TopLevelRequest(git_engine, run[t].old_sha,
                                                   run[t].new_sha, entry, sides[k])
                                      : k \in res.req},
                         writes |-> {WriteTarget(sides[k], SidePath(entry, sides[k]))
                                        : k \in res.got},
                         raised |-> res.raised,
                         ok_writes |-> Cardinality(res.okw),
                         failed_writes |-> Cardinality(res.got \ res.okw),
                         logged_failure |-> res.raised,
                         logged_done |-> ~res.raised,
                         copied |-> file_manager'.copied_files - file_manager.copied_files,
                         recorded |-> file_manager'.failed_files - file_manager.failed_files]]
             /\ progress_queue' = [progress_queue EXCEPT ![t] = Put(@, "log")]
    /\ UNCHANGED <<repo_path_var, old_sha_var, new_sha_var, git_engine, out_dir, runs_started>>
    /\ UNCHANGED <<parseVars, subVars, showVars>>

\* both workers: submodules = self.git_engine.get_submodule_info(old_sha, new_sha);
\* the list worker then puts the result and "complete"
GetSubmodules(t) ==
    /\ \/ run[t].pc = "submodules"
       \/ run[t].pc = "files" /\ run[t].todo = <<>>
    /\ \E info \in UNION {get_submodule_info(old_ls, new_ls, run[t].old_sha, run[t].new_sha) :
                            old_ls \in RepoOldListings(git_engine),
                            new_ls \in RepoNewListings(git_engine)} :
         /\ run' = [run EXCEPT ![t].pc = IF run[t].kind = "copy" THEN "subs" ELSE "done",
                               ![t].submodules = IF run[t].kind = "copy" THEN info ELSE <<>>,
                               ![t].queries = @ \cup {"ls-tree"},
                               ![t].used = @ \cup {git_engine},
                               ![t].cur = NoCur]
         /\ progress_queue' = [progress_queue EXCEPT ![t] =
                IF run[t].kind = "copy" THEN @
                ELSE Put(Put(IF info # <<>> THEN Put(@, "log") ELSE @, "diff_result"),
                         "complete")]
    /\ UNCHANGED <<repo_path_var, old_sha_var, new_sha_var, git_engine, file_manager, out_dir,
                   runs_started>>
    /\ UNCHANGED <<parseVars, subVars, showVars>>

\* a mutant of the two checks of _process_submodule: the submodule is opened
\* without asking whether it is initialized
SubmoduleOpenedUnchecked(initialized, valid) == valid

\* _process_submodule: the submodule is opened when is_submodule_initialized and
\* then sub_engine.validate_repository return true; each of the two returns after
\* putting "error" otherwise
SubmoduleOpened(initialized, valid) == initialized /\ valid

\* _copy_files_worker and _process_submodule up to the loop: put the header line,
\* check that the submodule is initialized and a repository, and diff it; every
\* failure puts "error" and returns to the loop over submodules
ProcessSubmodule(t) ==
    /\ run[t].pc = "subs"
    /\ run[t].submodules # <<>>
    /\ LET submodule  == Head(run[t].submodules)
           sub_engine == get_submodule_engine(git_engine, submodule.path)
       IN  \E chk \in {<<is_submodule_initialized(dot_git),
                         validate_repository(git_dir, rev_parse)>> :
                            dot_git \in DotGitStates, git_dir \in BOOLEAN,
                            rev_parse \in RevParseOutcomes},
              diff \in StoreDiffOutcomes(sub_engine), nested \in BOOLEAN :
             LET opened  == SubmoduleOpened(chk[1], chk[2])
                 diffed  == opened /\ diff.ok
                 entries == IF diffed THEN get_diff_entries(diff.stdout) ELSE <<>>
             IN  /\ ~diffed => ~nested
                 /\ ~opened => diff = DiffFailed
                 /\ run' = [run EXCEPT
                        ![t].pc = IF entries # <<>> THEN "sub_files" ELSE "subs",
                        ![t].submodules = IF entries # <<>> THEN @ ELSE Tail(@),
                        ![t].submodule = IF entries # <<>> THEN submodule ELSE NoSubmodule,
                        ![t].sub_todo = entries,
                        ![t].skipped = @ \/ ~chk[1],
                        ![t].used = @ \cup {git_engine},
                        ![t].sub_engine = IF entries # <<>> THEN sub_engine ELSE NoEngine,
                        ![t].sub_diff = IF opened THEN SubmoduleDiffRefs(submodule) ELSE <<>>,
                        ![t].cur = NoCur,
                        ![t].ret = IF entries # <<>> THEN NoRet
                                   ELSE [submodule |-> submodule, initialized |-> chk[1],
                                         opened |-> diffed,
                                         sub_queries |-> IF opened THEN {"diff"} ELSE {},
                                         left |-> <<>>, nested_changed |-> nested]]
                 /\ progress_queue' = [progress_queue EXCEPT ![t] =
                        IF diffed THEN Put(@, "log") ELSE Put(Put(@, "log"), "error")]
    /\ UNCHANGED <<repo_path_var, old_sha_var, new_sha_var, git_engine, file_manager, out_dir,
                   runs_started>>
    /\ UNCHANGED <<parseVars, subVars, showVars>>

\* _process_submodule: one iteration of the loop over sub_diff_entries; a retrieval
\* that raises leaves the loop through the except clause of the method
ProcessSubmoduleEntry(t) ==
    /\ run[t].pc = "sub_files"
    /\ run[t].sub_todo # <<>>
    /\ LET entry      == Head(run[t].sub_todo)
           submodule  == run[t].submodule
           sub_engine == run[t].sub_engine
           sides      == SubmoduleSides(entry.status)
       IN  \E res \in SideResults(sides), nested \in BOOLEAN :
             LET last == res.raised \/ Tail(run[t].sub_todo) = <<>>
             IN  /\ ~last => ~nested
                 /\ file_manager' = copy_file_to_directory(file_manager, Cardinality(res.okw),
                                                           Cardinality(res.got \ res.okw))
                 /\ run' = [run EXCEPT
                        ![t].pc = IF last THEN "subs" ELSE "sub_files",
                        ![t].submodules = IF last THEN Tail(@) ELSE @,
                        ![t].submodule = IF last THEN NoSubmodule ELSE @,
                        ![t].sub_todo = IF last THEN <<>> ELSE Tail(@),
                        ![t].sub_engine = IF last THEN NoEngine ELSE @,
                        ![t].sub_diff = <<>>,
                        ![t].attempted = @ + Cardinality(res.req),
                        ![t].cur =
                            [scope |-> "sub", entry |-> entry, submodule |-> submodule,
                             reqs |-> {SubmoduleRequest(sub_engine, submodule, entry, sides[k])
                                          : k \in res.req},
                             writes |-> {WriteTarget(sides[k],
                                                     MappedPath(submodule, entry, sides[k]))
                                            : k \in res.got},
                             raised |-> res.raised,
                             ok_writes |-> Cardinality(res.okw),
                             failed_writes |-> Cardinality(res.got \ res.okw),
                             logged_failure |-> res.raised,
                             logged_done |-> FALSE,
                             copied |-> file_manager'.copied_files
                                           - file_manager.copied_files,
                             recorded |-> file_manager'.failed_files
                                             - file_manager.failed_files],
                        ![t].ret = IF ~last THEN NoRet
                                   ELSE [submodule |-> submodule, initialized |-> TRUE,
                                         opened |-> TRUE,
                                         sub_queries |-> {"diff", "show"},
                                         left |-> IF res.raised THEN Tail(run[t].sub_todo)
                                                  ELSE <<>>,
                                         nested_changed |-> nested]]
                 /\ progress_queue' = [progress_queue EXCEPT ![t] =
                        IF res.raised THEN Put(@, "error") ELSE @]
    /\ UNCHANGED <<repo_path_var, old_sha_var, new_sha_var, git_engine, out_dir, runs_started>>
    /\ UNCHANGED <<parseVars, subVars, showVars>>

\* _copy_files_worker: get_statistics, the summary log lines and "complete"
Finish(t) ==
    /\ run[t].pc = "subs"
    /\ run[t].submodules = <<>>
    /\ run' = [run EXCEPT ![t].pc = "done", ![t].stats = file_manager, ![t].cur = NoCur,
                          ![t].ret = NoRet, ![t].sub_diff = <<>>]
    /\ progress_queue' = [progress_queue EXCEPT ![t] = Put(Put(@, "log"), "complete")]
    /\ UNCHANGED <<repo_path_var, old_sha_var, new_sha_var, git_engine, file_manager, out_dir,
                   runs_started>>
    /\ UNCHANGED <<parseVars, subVars, showVars>>

Next ==
    \E t \in Threads :
        \/ CopyFiles(t)
        \/ ListDiff(t)
        \/ WorkerBegin(t)
        \/ ValidateRepository(t)
        \/ ValidateShas(t)
        \/ PrepareOutputDirectory(t)
        \/ AnswerDialog(t)
        \/ GetDiff(t)
        \/ ProcessDiffEntry(t)
        \/ GetSubmodules(t)
        \/ ProcessSubmodule(t)
        \/ ProcessSubmoduleEntry(t)
        \/ Finish(t)

Spec == SessionInit /\ [][Next]_vars

\* the steps a worker thread takes by itself: every git command returns or times
\* out and every file operation returns, so a worker that can take a step takes it
WorkerStep(t) ==
    \/ WorkerBegin(t)
    \/ ValidateRepository(t)
    \/ ValidateShas(t)
    \/ PrepareOutputDirectory(t)
    \/ GetDiff(t)
    \/ ProcessDiffEntry(t)
    \/ GetSubmodules(t)
    \/ ProcessSubmodule(t)
    \/ ProcessSubmoduleEntry(t)
    \/ Finish(t)

\* the runs with the scheduling of the worker threads: nothing obliges the user to
\* press a button or to answer a dialog
SpecLive == SessionInit /\ [][Next]_vars /\ \A t \in Threads : WF_vars(WorkerStep(t))

----------------------------------------------------------------------------
(* Overlapping runs of List Diff: the buttons stay enabled while a worker runs,
   so a second click starts a second daemon thread beside the first; both threads
   share self.git_engine and the fields of the window *)

\* the worker threads of two clicks
OverlapThreads == {1, 2}

\* MainWindow.__init__, with a thread slot for each of the two clicks
OverlapInit ==
    /\ c_sha = None /\ c_path = <<>> /\ c_outcome = None /\ c_result = None /\ c_pc = "idle"
    /\ repo_path_var = None /\ old_sha_var = None /\ new_sha_var = None
    /\ git_engine = NoEngine
    /\ file_manager = NewFileManager
    /\ out_dir = "absent"
    /\ run = [t \in OverlapThreads |-> IdleRun]
    /\ progress_queue = [t \in OverlapThreads |-> <<>>]
    /\ runs_started = 0
    /\ p_records = <<>> /\ p_stdout = <<>> /\ p_entries = <<>> /\ p_pc = "idle"
    /\ s_old_ls = [ok |-> FALSE, lines |-> <<>>]
    /\ s_new_ls = [ok |-> FALSE, lines |-> <<>>]
    /\ s_info = <<>>
    /\ s_pc = "idle"

\* a click on List Diff at any time, the fields filled in anew, and the steps of
\* the two _list_diff_worker threads in any interleaving
OverlapNext ==
    \E t \in OverlapThreads :
        \/ ListDiff(t)
        \/ WorkerBegin(t)
        \/ ValidateRepository(t)
        \/ ValidateShas(t)
        \/ GetDiff(t)
        \/ GetSubmodules(t)

SpecOverlap == OverlapInit /\ [][OverlapNext]_vars

----------------------------------------------------------------------------
(* Retriever harness: get_file_content on one revision, one path, one outcome *)

\* paths of the tree, as the fragments of their names
ShowPaths ==
    { <<"a">>,
      <<"docs/", "does not exist", ".txt">>,
      <<"invalid object", ".md">>,
      <<"notes/", "fatal: path">> }

\* the outcomes `git show <sha>:<file_path>` can have for a revision
ShowOutcomesOf(sha) ==
    IF Resolves(sha) THEN ShowOutcomes \ {"bad_revision"}
    ELSE {"bad_revision", "other_failure", "timeout", "no_executable"}

ShowInit ==
    /\ c_sha \in Refs
    /\ c_path \in ShowPaths
    /\ c_outcome \in ShowOutcomesOf(c_sha)
    /\ c_result = None
    /\ c_pc = "input"
    /\ p_records = <<>>
    /\ p_stdout = <<>>
    /\ p_entries = <<>>
    /\ p_pc = "idle"
    /\ s_old_ls = [ok |-> FALSE, lines |-> <<>>]
    /\ s_new_ls = [ok |-> FALSE, lines |-> <<>>]
    /\ s_info = <<>>
    /\ s_pc = "idle"
    /\ repo_path_var = None
    /\ old_sha_var = None
    /\ new_sha_var = None
    /\ git_engine = NoEngine
    /\ file_manager = NewFileManager
    /\ out_dir = "absent"
    /\ run = [t \in Threads |-> IdleRun]
    /\ progress_queue = [t \in Threads |-> <<>>]
    /\ runs_started = 0

GetFileContent ==
    /\ c_pc = "input"
    /\ c_result' = get_file_content(c_sha, c_path, c_outcome)
    /\ c_pc' = "returned"
    /\ UNCHANGED <<c_sha, c_path, c_outcome>>
    /\ UNCHANGED <<parseVars, subVars, sessionVars>>

ShowNext == GetFileContent

SpecShow == ShowInit /\ [][ShowNext]_vars

\* C12: when the command fails, get_file_content returns empty content exactly when
\* git reports that the path does not exist at the revision; a timeout, a missing
\* executable, an unresolvable revision and every other failure raise, whatever the
\* text of the path or of the revision.
C12_EmptyOnlyForMissingPath ==
    (c_pc = "returned" /\ c_outcome \notin {"ok", "ok_empty"}) =>
        /\ c_result \in {"empty", "raise"}
        /\ c_result = "empty" <=> c_outcome \in {"path_missing", "path_not_in_revision"}

----------------------------------------------------------------------------
(* Properties of the runs *)

\* C2: for every top-level entry of an extraction run the content is requested by
\* the status table (A only the new side, D only the old side, M, T, R and C the old
\* side at old_path and the new side at new_path), from the run's repository and
\* revisions, and every requested side is written below old/ or new/ at its path.
C2_TopLevelStatusTable ==
    \A t \in Threads :
        LET c == run[t].cur
            required == CASE c.entry.status = "A" -> {"new"}
                          [] c.entry.status = "D" -> {"old"}
                          [] OTHER -> {"old", "new"}
        IN  c.scope = "top" =>
              /\ {r.side : r \in c.reqs} = required
              /\ \A r \in c.reqs :
                    /\ r.store = git_engine
                    /\ r.ref = (IF r.side = "old" THEN run[t].old_sha ELSE run[t].new_sha)
                    /\ r.path = SidePath(c.entry, r.side)
              /\ c.writes = {WriteTarget(r.side, r.path) : r \in c.reqs}

\* C3: a failure for one file never prevents a later file of the run from being
\* attempted: when the handling of a submodule has returned, no nested entry that
\* has sides to fetch was left unvisited.
C3_LaterFilesAttempted ==
    \A t \in Threads :
        \A i \in DOMAIN run[t].ret.left : TopLevelSides(run[t].ret.left[i].status) = <<>>

\* C4: at the end of an extraction run the files counted as copied during the run
\* plus the files recorded as failed during the run equal the files the run
\* attempted, top-level and nested.
C4_CountsCoverAttempts ==
    \A t \in Threads :
        (run[t].kind = "copy" /\ run[t].pc = "done" /\ run[t].stats # NoStats) =>
            (run[t].stats.copied_files - run[t].start_stats.copied_files)
              + (run[t].stats.failed_files - run[t].start_stats.failed_files)
              = run[t].attempted

\* C5: every extraction run starts on a fresh outcome: when the worker begins,
\* the count of copied files is 0 and the list of failed files is empty.
C5_FreshOutcomePerRun ==
    \A t \in Threads :
        (run[t].kind = "copy" /\ run[t].start_stats # NoStats) =>
            run[t].start_stats = NewFileManager

\* C6: an extraction run whose old or new revision does not resolve does no file
\* work: it requests no content and neither creates nor clears the output directory.
C6_UnresolvedRevisionNoFileWork ==
    \A t \in Threads :
        (/\ run[t].kind = "copy"
         /\ run[t].valid = {TRUE}
         /\ ~(Resolves(run[t].old_sha) /\ Resolves(run[t].new_sha))) =>
            /\ run[t].dir_ops = {}
            /\ run[t].attempted = 0

\* C7: in a run of either kind whose repository validation returned false, the
\* worker has put a failure event as its last event and has stopped: no diff, no
\* tree listing, no content request and no directory operation is made in that run.
C7_InvalidRepositoryStops ==
    \A t \in Threads :
        run[t].valid = {FALSE} =>
            /\ run[t].pc = "done"
            /\ progress_queue[t] # <<>>
            /\ progress_queue[t][Len(progress_queue[t])] = "error"
            /\ \A i \in DOMAIN progress_queue[t] : progress_queue[t][i] # "complete"
            /\ run[t].queries = {}
            /\ run[t].attempted = 0
            /\ run[t].dir_ops = {}
            /\ run[t].cur = NoCur
            /\ run[t].ret = NoRet

C7_Witness ==
    \E t \in Threads :
        /\ run[t].valid = {FALSE}
        /\ run[t].kind = "copy"
        /\ run[t].pc = "done"
        /\ runs_started = MaxRuns

\* C9: a submodule that was opened and whose own trees hold a changed, initialized
\* submodule has had its trees listed, so that the nested submodule is extracted.
C9_NestedSubmodulesResolved ==
    \A t \in Threads :
        (run[t].ret.opened /\ run[t].ret.nested_changed) =>
            "ls-tree" \in run[t].ret.sub_queries

\* C10: a nested entry whose retrievals all return is fetched by the same status
\* table as a top-level entry (A the new side, D the old side, M, T, R and C both),
\* from the submodule's own store and commits, and written at the mapped path.
C10_NestedStatusTable ==
    \A t \in Threads :
        LET c == run[t].cur
            required == CASE c.entry.status = "A" -> {"new"}
                          [] c.entry.status = "D" -> {"old"}
                          [] OTHER -> {"old", "new"}
        IN  (c.scope = "sub" /\ ~c.raised) =>
              /\ {r.side : r \in c.reqs} = required
              /\ \A r \in c.reqs :
                    /\ r.store = get_submodule_engine(git_engine, c.submodule.path)
                    /\ r.path = SidePath(c.entry, r.side)
              /\ {w.version : w \in c.writes} = required

\* C11: every file extracted from a submodule is written, below old/ or new/, at
\* the submodule's path joined with the nested entry's path of that side, and the
\* path requested from the submodule's own store is the nested path without prefix.
C11_NestedPathsPrefixed ==
    \A t \in Threads :
        LET c == run[t].cur
        IN  c.scope = "sub" =>
              /\ \A w \in c.writes :
                    w.file_path = <<c.submodule.path, SidePath(c.entry, w.version)>>
              /\ \A r \in c.reqs :
                    /\ r.path = SidePath(c.entry, r.side)
                    /\ r.path # <<c.submodule.path, SidePath(c.entry, r.side)>>

C11_Witness ==
    \E t \in Threads :
        /\ run[t].cur.scope = "sub"
        /\ {w.version : w \in run[t].cur.writes} = {"old", "new"}
        /\ Len(run[t].cur.submodule.path) = 1

\* C14: in an extraction run whose diff stream is empty the parser yields no entry,
\* no file is fetched or written, and the count of copied files reported at the end
\* of the run is 0.
C14_EmptyDiffCopiesNothing ==
    \A t \in Threads :
        (run[t].kind = "copy" /\ run[t].empty_diff) =>
            /\ get_diff_entries(<<>>) = <<>>
            /\ run[t].attempted = 0
            /\ run[t].stats # NoStats => run[t].stats.copied_files = 0

\* C16: a changed submodule that is not initialized is passed over: no diff and no
\* content request is made in its store, the condition is put on the event channel,
\* the submodule is not taken up again, the remaining submodules stay to be
\* processed, and the run, once it has stopped, has put "complete" last.
C16_UninitializedSubmoduleSkipped ==
    \A t \in Threads :
        /\ (run[t].ret.submodule # NoSubmodule /\ ~run[t].ret.initialized) =>
              /\ run[t].ret.sub_queries = {}
              /\ ~run[t].ret.opened
              /\ run[t].cur = NoCur
              /\ run[t].pc = "subs"
              /\ progress_queue[t][Len(progress_queue[t])] = "error"
              /\ \A i \in DOMAIN run[t].submodules :
                    run[t].submodules[i].path # run[t].ret.submodule.path
        /\ run[t].skipped =>
              /\ run[t].pc \in {"subs", "sub_files", "done"}
              /\ run[t].pc = "done" =>
                    progress_queue[t][Len(progress_queue[t])] = "complete"

\* C16 witness: a run has passed over an uninitialized submodule, has then fetched
\* files of a later submodule, and has ended with "complete"
C16_Witness ==
    \E t \in Threads :
        /\ run[t].skipped
        /\ run[t].pc = "done"
        /\ run[t].attempted > 0
        /\ run[t].empty_diff
        /\ \E i \in DOMAIN progress_queue[t] : progress_queue[t][i] = "error"

\* C17: no failure of a file is dropped: when the handling of an entry, top-level
\* or nested, had a retrieval raise or a write fail, a failure was put on the event
\* channel for it, the entry was not logged as completed, and each failed retrieval
\* and each failed write was recorded in failed_files, which the final count sums.
C17_FailuresLoggedAndCounted ==
    \A t \in Threads :
        LET c == run[t].cur
            failures == c.failed_writes + (IF c.raised THEN 1 ELSE 0)
        IN  (c.scope # "none" /\ failures > 0) =>
              /\ c.logged_failure
              /\ ~c.logged_done
              /\ c.recorded = failures

\* C18: every side attempted for an entry gets at most one terminal outcome: the
\* handling of an entry adds to copied_files one per side written, adds to
\* failed_files at most one per side whose write failed or whose retrieval raised,
\* and so never more outcomes than sides it requested.
C18_AtMostOneOutcomePerSide ==
    \A t \in Threads :
        LET c == run[t].cur
        IN  c.scope # "none" =>
              /\ c.copied = c.ok_writes
              /\ c.ok_writes + c.failed_writes = Cardinality(c.writes)
              /\ c.recorded <= c.failed_writes + (IF c.raised THEN 1 ELSE 0)
              /\ c.raised => Cardinality(c.reqs) = Cardinality(c.writes) + 1
              /\ c.copied + c.recorded <= Cardinality(c.reqs)

\* C18 witness: of an entry with two sides the old one was written and the
\* retrieval of the new one raised: one file copied, one failure recorded
C18_Witness ==
    \E t \in Threads :
        /\ run[t].cur.scope = "top"
        /\ run[t].cur.raised
        /\ run[t].cur.copied = 1
        /\ run[t].cur.recorded = 1
        /\ Cardinality(run[t].cur.reqs) = 2

\* C19: a run waits on nothing but its git commands, each bounded by a timeout: with
\* every command returning or timing out, every started run reaches its end and
\* puts its terminal event, whatever the user does or does not do.
C19_EveryRunEnds ==
    \A t \in Threads : (run[t].pc = "begin") ~> (run[t].pc = "done")


\* C20: every method a run calls on the repository handle is called on the
\* handle that run constructed when it began, also while another run is started
\* before it finishes
C20_HandleFixedForRun ==
    \A t \in DOMAIN run : run[t].used \subseteq {run[t].engine}


\* C21: the nested diff of a submodule is made between the two commits the
\* parent's trees hold for it, both present, and every nested content retrieval
\* names one of those commits; no revision of the parent and no absent commit is
\* passed to the submodule's own store.
C21_SubmoduleStoreGetsOwnCommits ==
    \A t \in Threads :
        LET c == run[t].cur
            submodule == IF run[t].pc = "sub_files" THEN run[t].submodule
                         ELSE run[t].ret.submodule
        IN  /\ run[t].sub_diff # <<>> =>
                  /\ run[t].sub_diff = <<submodule.old_commit, submodule.new_commit>>
                  /\ None \notin {run[t].sub_diff[1], run[t].sub_diff[2]}
            /\ c.scope = "sub" =>
                  \A r \in c.reqs :
                      /\ r.ref # None
                      /\ r.ref \in {c.submodule.old_commit, c.submodule.new_commit}


\* the kinds of the items that end a run: "complete" and "error"
TerminalKinds == {"complete", "error"}

\* C22: the items a run has put on the progress queue begin with "start", hold a
\* terminal item ("complete" or "error") only as the last item, and end with one
\* when the run has ended; nothing follows an "error".
C22_OneTerminalEventLast ==
    \A t \in Threads :
        LET q == progress_queue[t]
        IN  /\ q # <<>> => q[1] = "start"
            /\ \A i \in DOMAIN q : q[i] \in TerminalKinds => i = Len(q)
            /\ run[t].pc = "done" => (q # <<>> /\ q[Len(q)] \in TerminalKinds)


\* C23: for a top-level entry whose path is a commit-link of the repository (a
\* submodule pointer) the run asks the parent's store for no content, hands no
\* file at old/<path> or new/<path> to the FileManager and records no failure.
C23_SubmodulePointerNotMaterialized ==
    \A t \in Threads :
        LET c == run[t].cur
        IN  (c.scope = "top" /\ c.entry.new_path \in CommitLinkPaths(git_engine)) =>
              /\ c.reqs = {}
              /\ c.writes = {}
              /\ c.recorded = 0

====
